---------------------------- MODULE Spec2Model ----------------------------
(***************************************************************************)
(* k-means-gpu: src/lib.rs.                                                *)
(*                                                                         *)
(* SpecSample the sampling loop of init_centroids alone, with an unbounded *)
(*           number of turns and a fair random source.                     *)
(* Spec      the engine kmeans(k, image), run twice in a row on            *)
(*           the same input: init_centroids (rejection sampling), adapter  *)
(*           and device acquisition, buffer creation, command encoding,    *)
(*           submission, readback.                                         *)
(* SpecPure  the pure helpers padded_bytes_per_row,                        *)
(*           compute_work_group_count and the row un-padding of the        *)
(*           readback, applied to inputs drawn from bounded sets.          *)
(*                                                                         *)
(* Numbers.  TLC integers are 32-bit signed, so a u32 whose wrap-around    *)
(* matters is kept as two 16-bit limbs [hi, lo].  The engine's image is a  *)
(* few pixels large, so width * height and pixel offsets are far from the  *)
(* u32 range there and are plain integers.  usize is 64 bits wide (native  *)
(* wgpu target): width as usize * 4 cannot wrap.                           *)
(*                                                                         *)
(* Floats.  An f32 obtained as byte / 255.0 is kept as the exact rational  *)
(* <<byte, 255>>.                                                          *)
(***************************************************************************)
EXTENDS Integers, Sequences, FiniteSets, TLC

VARIABLES
    image,              \* the input Image: [dimensions, rgba]
    k,                  \* the requested number of centroids
    run,                \* which call of kmeans this is (in RunIds)
    pc,                 \* position of the host thread inside kmeans
    rngLog,             \* seed -> values StdRng::seed_from_u64(seed) has yielded so far
    rngPos,             \* number of values this run's rng has handed out
    picked_indices,     \* init_centroids: Vec<u32> of accepted pixel indices
    drawn,              \* init_centroids: color_index of the latest turn of the loop
    centroids,          \* init_centroids' return value, as 32-bit words
    features,           \* adapter.features() contains TIMESTAMP_QUERY
    input_texture,      \* Rgba32Float texture: one <<r,g,b,a>> of rationals per pixel
    centroid_buffer,    \* device buffer initialised from centroids
    calculated_buffer,  \* device buffer: one u32 per pixel
    commands,           \* what the command encoder has recorded
    output_buffer,      \* device buffer mapped for the image readback
    staging_buffer,     \* device buffer mapped for the centroid readback
    deviceLog,          \* device operations performed by this run, in order
    stdout,             \* lines printed by this run
    result,             \* kmeans' return value
    history,            \* [centroids, result] of the finished earlier runs
    overflow_checks,    \* build profile: TRUE = debug (overflow panics), FALSE = release (wraps)
    fn,                 \* SpecPure: the helper being applied
    arg,                \* SpecPure: its arguments
    ret                 \* SpecPure: its return value

engineVars == <<image, k, run, pc, rngLog, rngPos, picked_indices, drawn, centroids,
                features, input_texture, centroid_buffer, calculated_buffer,
                commands, output_buffer, staging_buffer, deviceLog, stdout,
                result, history>>
pureVars == <<overflow_checks, fn, arg, ret>>
vars == <<image, k, run, pc, rngLog, rngPos, picked_indices, drawn, centroids,
          features, input_texture, centroid_buffer, calculated_buffer,
          commands, output_buffer, staging_buffer, deviceLog, stdout,
          result, history, overflow_checks, fn, arg, ret>>

---------------------------------------------------------------------------
(* Bounds of the model *)

MaxPixels == 4
MaxK == 2
MaxDraws == 3

\* kmeans is called twice in a row on the same input
RunIds == {1, 2}

\* The pixel colors of the test images (RGBA8)
Red == <<255, 0, 0, 255>>
Blue == <<0, 0, 255, 255>>

None == "None"

---------------------------------------------------------------------------
(* Sequence helpers *)

Range(s) == { s[i] : i \in 1..Len(s) }

\* Vec::contains
Contains(s, x) == \E i \in 1..Len(s) : s[i] = x

RECURSIVE Flatten(_)
Flatten(ss) == IF ss = << >> THEN << >> ELSE Head(ss) \o Flatten(Tail(ss))

\* vec![x; n]
Repeat(x, n) == [i \in 1..n |-> x]

---------------------------------------------------------------------------
(* Image *)

\* Image::new
ImageNew(dimensions, rbga) == [dimensions |-> dimensions, rgba |-> rbga]

\* Image::get_pixel: the 4-byte slice at (x + y * width) * 4
get_pixel(img, x, y) ==
    LET index == (x + y * img.dimensions[1]) * 4
    IN SubSeq(img.rgba, index + 1, index + 4)

\* The color of pixel p (0-based) in each family of test images: every pixel a
\* color of its own, two colors alternating, one color.
PixelColor(pattern, p) ==
    IF pattern = "gradient" THEN << (10 + 40 * p) % 256, (255 - 40 * p) % 256, p % 256, 255 >>
    ELSE IF pattern = "stripes" THEN (IF p % 2 = 0 THEN Red ELSE Blue)
    ELSE Red

Patterns == { "gradient", "stripes", "flat" }

Dimensions == { d \in (1..MaxPixels) \X (1..MaxPixels) : d[1] * d[2] <= MaxPixels }

\* Images the caller can pass: width * height pixels, 4 bytes each.
Images ==
    { ImageNew(d, Flatten([p \in 1..(d[1] * d[2]) |-> PixelColor(pattern, p - 1)])) :
        d \in Dimensions, pattern \in Patterns }

---------------------------------------------------------------------------
(* Floats and 32-bit words *)

\* `byte as f32 / 255.0`: the rational byte / 255
F32Div(a, b) == <<a, b>>

\* Srgba<u8> -> Srgba<f32> (into_format): each channel scaled to [0, 1]
into_format(color) == [c \in 1..4 |-> F32Div(color[c], 255)]

---------------------------------------------------------------------------
(* init_centroids *)

\* StdRng::seed_from_u64(42): the seed of the run's generator
rng_seed_per_run(r) == 42 + r
rng_seed(r) == 42

Seeds == { rng_seed(r) : r \in RunIds }

\* if !picked_indices.contains(&color_index) { picked_indices.push(color_index) }
PickAlways(picked, color_index) == Append(picked, color_index)
PickIfNew(picked, color_index) ==
    IF ~Contains(picked, color_index) THEN Append(picked, color_index) ELSE picked

\* the closure of flat_map: the four normalized channels of the picked pixel
PixelToFloats(img, color_index) ==
    LET width == img.dimensions[1]
        x == color_index % width
        y == color_index \div width
        pixel == get_pixel(img, x, y)
    IN << F32Div(pixel[1], 255), F32Div(pixel[2], 255),
          F32Div(pixel[3], 255), F32Div(pixel[4], 255) >>

\* let mut centroids = vec![]; centroids.extend(k); rng = seed_from_u64(42); picked = []
InitCentroidsBegin ==
    /\ pc = "kmeans"
    /\ centroids' = << k >>
    /\ rngPos' = 0
    /\ picked_indices' = << >>
    /\ drawn' = None
    /\ pc' = "init_centroids"
    /\ UNCHANGED <<image, k, run, rngLog, features, input_texture, centroid_buffer,
                   calculated_buffer, commands, output_buffer, staging_buffer,
                   deviceLog, stdout, result, history>>
    /\ UNCHANGED pureVars

\* One turn of `loop { let color_index = rng.gen_range(0..total_px); ... }`.
\* The generator is a function of its seed: a value it has yielded before (in an
\* earlier run with the same seed) is yielded again at the same position; a new
\* position yields any index of the range.
InitCentroidsDraw ==
    /\ pc = "init_centroids"
    /\ Len(picked_indices) < k
    /\ LET total_px == image.dimensions[1] * image.dimensions[2]
           seed == rng_seed(run)
       IN \E color_index \in 0..(total_px - 1) :
            /\ IF rngPos < Len(rngLog[seed])
                  THEN /\ color_index = rngLog[seed][rngPos + 1]
                       /\ UNCHANGED rngLog
                  ELSE /\ Len(rngLog[seed]) < MaxDraws
                       /\ rngLog' = [rngLog EXCEPT ![seed] = Append(@, color_index)]
            /\ rngPos' = rngPos + 1
            /\ drawn' = color_index
            /\ picked_indices' = PickIfNew(picked_indices, color_index)
    /\ UNCHANGED <<image, k, run, pc, centroids, features, input_texture,
                   centroid_buffer, calculated_buffer, commands, output_buffer,
                   staging_buffer, deviceLog, stdout, result, history>>
    /\ UNCHANGED pureVars

\* `for _ in 0..k` is over: append the picked pixels' colors and return
InitCentroidsReturn ==
    /\ pc = "init_centroids"
    /\ Len(picked_indices) >= k
    /\ centroids' = centroids \o
          Flatten([i \in 1..Len(picked_indices) |-> PixelToFloats(image, picked_indices[i])])
    /\ pc' = "request_adapter"
    /\ UNCHANGED <<image, k, run, rngLog, rngPos, picked_indices, drawn, features,
                   input_texture, centroid_buffer, calculated_buffer, commands,
                   output_buffer, staging_buffer, deviceLog, stdout, result, history>>
    /\ UNCHANGED pureVars

---------------------------------------------------------------------------
(* u32 arithmetic on 16-bit limbs *)

Limb == 2^16

\* the u32 of a small natural
ToU32(n) == [hi |-> n \div Limb, lo |-> n % Limb]

\* u32 + small: the wrapped sum and whether it wrapped
AddU32(a, n) ==
    LET lo == a.lo + n
        hi == a.hi + (lo \div Limb)
    IN [val |-> [hi |-> hi % Limb, lo |-> lo % Limb], wrapped |-> hi >= Limb]

\* u32 - small: the wrapped difference and whether it wrapped
SubU32(a, n) ==
    LET lo == a.lo - n
        hi == IF lo < 0 THEN a.hi - 1 ELSE a.hi
    IN [val |-> [hi |-> hi % Limb, lo |-> lo % Limb], wrapped |-> hi < 0]

\* u32 / small (the quotient is below 2^31 for a divisor of 2 or more)
DivU32(a, d) == (a.hi \div d) * Limb + ((a.hi % d) * Limb + a.lo) \div d

---------------------------------------------------------------------------
(* compute_work_group_count *)

\* (size + workgroup - 1) / workgroup, evaluated left to right in u32
WorkGroupAxis(size, workgroup) ==
    LET sum == AddU32(size, workgroup)
        dec == SubU32(sum.val, 1)
    IN [count |-> DivU32(dec.val, workgroup), wrapped |-> sum.wrapped \/ dec.wrapped]

\* width, height: u32 limbs; the workgroup sizes: small naturals
compute_work_group_count(width, height, workgroup_width, workgroup_height) ==
    LET x == WorkGroupAxis(width, workgroup_width)
        y == WorkGroupAxis(height, workgroup_height)
    IN [x |-> x.count, y |-> y.count, wrapped |-> x.wrapped \/ y.wrapped]

---------------------------------------------------------------------------
(* padded_bytes_per_row and the un-padding of the readback *)

\* without the outer `% 256`: a plausible slip, one row of padding too many
padded_bytes_per_row_no_mod(width) ==
    LET bytes_per_row == width * 4
        padding == 256 - (bytes_per_row % 256)
    IN bytes_per_row + padding
padded_bytes_per_row(width) ==
    LET bytes_per_row == width * 4
        padding == (256 - (bytes_per_row % 256)) % 256
    IN bytes_per_row + padding

\* slice.chunks_exact(n): the full chunks of n elements (n >= 1)
chunks_exact(s, n) == [c \in 1..(Len(s) \div n) |-> SubSeq(s, (c - 1) * n + 1, c * n)]

Min(a, b) == IF a <= b THEN a ELSE b

\* the padded rows taken at the unpadded stride: a plausible slip
unpad_rows_tight(padded_data, padded_bytes_per_row_, unpadded_bytes_per_row, height) ==
    LET pixels == Repeat(0, unpadded_bytes_per_row * height)
        src == chunks_exact(padded_data, unpadded_bytes_per_row)
        dst == chunks_exact(pixels, unpadded_bytes_per_row)
        n == Min(Len(src), Len(dst))
    IN [i \in 1..Len(pixels) |->
          LET c == (i - 1) \div unpadded_bytes_per_row + 1
              b == ((i - 1) % unpadded_bytes_per_row) + 1
          IN IF c <= n THEN src[c][b] ELSE pixels[i]]
\* let mut pixels = vec![0; unpadded * height];
\* for (padded, pixels) in padded_data.chunks_exact(padded)
\*         .zip(pixels.chunks_exact_mut(unpadded)) {
\*     pixels.copy_from_slice(&padded[..unpadded]) }
unpad_rows(padded_data, padded_bytes_per_row_, unpadded_bytes_per_row, height) ==
    LET pixels == Repeat(0, unpadded_bytes_per_row * height)
        src == chunks_exact(padded_data, padded_bytes_per_row_)
        dst == chunks_exact(pixels, unpadded_bytes_per_row)
        n == Min(Len(src), Len(dst))
    IN [i \in 1..Len(pixels) |->
          LET c == (i - 1) \div unpadded_bytes_per_row + 1
              b == ((i - 1) % unpadded_bytes_per_row) + 1
          IN IF c <= n THEN SubSeq(src[c], 1, unpadded_bytes_per_row)[b] ELSE pixels[i]]

---------------------------------------------------------------------------
(* Device side *)

\* the tile of the Assignment dispatch: (16, 16)
TileSize == 16

\* device.create_buffer: wgpu hands out zero-initialised memory
create_buffer_uninit(size) == [i \in 1..size |-> (i * 37) % 256]
create_buffer(size) == Repeat(0, size)

\* the contents of calculated_buffer: vec![k + 1; index_size]
calculated_init_k(kk, index_size) == Repeat(kk, index_size)
calculated_init(kk, index_size) == Repeat(kk + 1, index_size)

\* the float data written to the input texture, one color per pixel
float_data(img) ==
    [p \in 1..(Len(img.rgba) \div 4) |->
        into_format(SubSeq(img.rgba, (p - 1) * 4 + 1, p * 4))]

\* the centroid colors held in a centroid buffer: the words after the count
CentroidColors(buffer) ==
    [i \in 1..((Len(buffer) - 1) \div 4) |-> SubSeq(buffer, 4 * i - 2, 4 * i + 1)]

\* squared Euclidean distance over R, G, B, A (both colors over 255)
Dist2(a, b) ==
    (a[1][1] - b[1][1]) * (a[1][1] - b[1][1]) + (a[2][1] - b[2][1]) * (a[2][1] - b[2][1])
  + (a[3][1] - b[3][1]) * (a[3][1] - b[3][1]) + (a[4][1] - b[4][1]) * (a[4][1] - b[4][1])

\* index of the nearest centroid, ties to the lowest index
NearestCentroid(color, cs) ==
    CHOOSE i \in 0..(Len(cs) - 1) :
        /\ \A j \in 0..(Len(cs) - 1) : Dist2(color, cs[i + 1]) <= Dist2(color, cs[j + 1])
        /\ \A j \in 0..(i - 1) : Dist2(color, cs[j + 1]) > Dist2(color, cs[i + 1])

\* shaders/find_centroid.wgsl dispatched on a grid of grid_x * grid_y tiles: every
\* pixel inside the image and inside the grid gets its nearest centroid's index
find_centroid(texture, centroid_buf, calculated, width, height, grid_x, grid_y) ==
    LET cs == CentroidColors(centroid_buf)
    IN [p \in 1..Len(calculated) |->
          LET x == (p - 1) % width
              y == (p - 1) \div width
          IN IF /\ x < grid_x * TileSize /\ y < grid_y * TileSize
                /\ x < width /\ y < height /\ p <= Len(texture)
                /\ Len(cs) >= 1
                THEN NearestCentroid(texture[p], cs)
                ELSE calculated[p]]

Cmd(op, x, y) == [op |-> op, x |-> x, y |-> y]

\* the device executing a submitted command list, in order
RECURSIVE Execute(_, _, _, _)
Execute(cmds, dev, width, height) ==
    IF cmds = << >> THEN dev
    ELSE LET c == Head(cmds)
             next ==
               IF c.op = "dispatch_find_centroid"
                  THEN [dev EXCEPT !.calculated =
                          find_centroid(dev.texture, dev.centroid, dev.calculated,
                                        width, height, c.x, c.y)]
               ELSE IF c.op = "copy_centroid_to_staging"
                  THEN [dev EXCEPT !.staging = dev.centroid]
               ELSE dev
         IN Execute(Tail(cmds), next, width, height)

---------------------------------------------------------------------------
(* kmeans *)

Pending == [kind |-> "Pending"]
Ok(img) == [kind |-> "Ok", image |-> img]
Err(e) == [kind |-> "Err", error |-> e]

\* what the encoder records between create_command_encoder and finish
encode_commands(query_set, dispatch_with, dispatch_height) ==
    (IF query_set THEN << Cmd("write_timestamp", 0, 0) >> ELSE << >>)
    \o << Cmd("dispatch_find_centroid", dispatch_with, dispatch_height) >>
    \o (IF query_set THEN << Cmd("write_timestamp", 1, 0) >> ELSE << >>)
    \o << Cmd("copy_centroid_to_staging", 0, 0) >>
    \o (IF query_set THEN << Cmd("resolve_query_set", 0, 0) >> ELSE << >>)

\* instance.request_adapter(..).block_on().ok_or_else(..)?
RequestAdapter ==
    /\ pc = "request_adapter"
    /\ deviceLog' = Append(deviceLog, "request_adapter")
    /\ \/ /\ result' = Err("Couldn't create the adapter")
          /\ pc' = "done"
          /\ UNCHANGED features
       \/ /\ features' \in BOOLEAN
          /\ pc' = "request_device"
          /\ UNCHANGED result
    /\ UNCHANGED <<image, k, run, rngLog, rngPos, picked_indices, drawn, centroids,
                   input_texture, centroid_buffer, calculated_buffer, commands,
                   output_buffer, staging_buffer, stdout, history>>
    /\ UNCHANGED pureVars

\* adapter.request_device(..).block_on()?
RequestDevice ==
    /\ pc = "request_device"
    /\ deviceLog' = Append(deviceLog, "request_device")
    /\ \/ /\ result' = Err("RequestDeviceError")
          /\ pc' = "done"
       \/ /\ pc' = "create_resources"
          /\ UNCHANGED result
    /\ UNCHANGED <<image, k, run, rngLog, rngPos, picked_indices, drawn, centroids, features,
                   input_texture, centroid_buffer, calculated_buffer, commands,
                   output_buffer, staging_buffer, stdout, history>>
    /\ UNCHANGED pureVars

\* query set, input texture, centroid buffer, assignment buffer, pipeline, bind group
CreateResources ==
    /\ pc = "create_resources"
    /\ LET width == image.dimensions[1]
           height == image.dimensions[2]
           index_size == width * height
       IN /\ input_texture' = float_data(image)
          /\ centroid_buffer' = centroids
          /\ calculated_buffer' = calculated_init(k, index_size)
    /\ deviceLog' = deviceLog \o << "write_texture", "create_buffer_init" >>
    /\ pc' = "encode"
    /\ UNCHANGED <<image, k, run, rngLog, rngPos, picked_indices, drawn, centroids, features,
                   commands, output_buffer, staging_buffer, stdout, result, history>>
    /\ UNCHANGED pureVars

\* the command encoder: timestamps, the compute pass, the output and staging
\* buffers, the centroid copy.  The image is a few pixels wide: width + 16 is far
\* from wrapping here.
Encode ==
    /\ pc = "encode"
    /\ LET width == image.dimensions[1]
           height == image.dimensions[2]
           grid == compute_work_group_count(ToU32(width), ToU32(height), TileSize, TileSize)
           padded == padded_bytes_per_row(width)
           output_buffer_size == padded * height
           centroid_size == Len(centroids)
       IN /\ commands' = encode_commands(features, grid.x, grid.y)
          /\ output_buffer' = create_buffer(output_buffer_size)
          /\ staging_buffer' = create_buffer(centroid_size)
    /\ deviceLog' = Append(deviceLog, "create_buffer")
    /\ pc' = "submit"
    /\ UNCHANGED <<image, k, run, rngLog, rngPos, picked_indices, drawn, centroids, features,
                   input_texture, centroid_buffer, calculated_buffer, stdout, result,
                   history>>
    /\ UNCHANGED pureVars

\* queue.submit(..); map_async x 3; device.poll(Maintain::Wait)
Submit ==
    /\ pc = "submit"
    /\ LET dev == Execute(commands,
                          [texture |-> input_texture, centroid |-> centroid_buffer,
                           calculated |-> calculated_buffer, staging |-> staging_buffer],
                          image.dimensions[1], image.dimensions[2])
       IN /\ calculated_buffer' = dev.calculated
          /\ staging_buffer' = dev.staging
    /\ deviceLog' = Append(deviceLog, "submit")
    /\ pc' = "readback"
    /\ UNCHANGED <<image, k, run, rngLog, rngPos, picked_indices, drawn, centroids, features,
                   input_texture, centroid_buffer, commands, output_buffer, stdout,
                   result, history>>
    /\ UNCHANGED pureVars

\* the lines printed from the mapped staging buffer: data[4..] in chunks of 4 floats
CentroidLines(data) ==
    LET floats == SubSeq(data, 2, Len(data))
    IN [i \in 1..((Len(floats) + 3) \div 4) |->
          [line |-> "Centroid", index |-> i - 1,
           value |-> SubSeq(floats, 4 * i - 3, Min(4 * i, Len(floats)))]]

ElapsedLine == [line |-> "Compute shader elapsed", index |-> 0, value |-> << >>]

\* the three mapped buffers: print the centroids, print the elapsed time, un-pad
\* the output rows into a fresh Image
Readback ==
    /\ pc = "readback"
    /\ \E cent_ok \in BOOLEAN, query_ok \in BOOLEAN, buffer_ok \in BOOLEAN :
         LET width == image.dimensions[1]
             height == image.dimensions[2]
             padded == padded_bytes_per_row(width)
             unpadded_bytes_per_row == width * 4
         IN /\ stdout' = stdout
                  \o (IF cent_ok THEN CentroidLines(staging_buffer) ELSE << >>)
                  \o (IF query_ok /\ features THEN << ElapsedLine >> ELSE << >>)
            /\ result' = IF buffer_ok
                            THEN Ok(ImageNew(<<width, height>>,
                                     unpad_rows(output_buffer, padded,
                                                unpadded_bytes_per_row, height)))
                            ELSE Err("BufferAsyncError")
    /\ pc' = "done"
    /\ UNCHANGED <<image, k, run, rngLog, rngPos, picked_indices, drawn, centroids, features,
                   input_texture, centroid_buffer, calculated_buffer, commands,
                   output_buffer, staging_buffer, deviceLog, history>>
    /\ UNCHANGED pureVars

\* the caller calls kmeans again with the same k and image
RunAgain ==
    /\ pc = "done"
    /\ run + 1 \in RunIds
    /\ history' = Append(history, [centroids |-> centroids, result |-> result,
                                  features |-> features])
    /\ run' = run + 1
    /\ pc' = "kmeans"
    /\ rngPos' = 0
    /\ picked_indices' = << >>
    /\ drawn' = None
    /\ centroids' = << >>
    /\ features' = FALSE
    /\ input_texture' = << >>
    /\ centroid_buffer' = << >>
    /\ calculated_buffer' = << >>
    /\ commands' = << >>
    /\ output_buffer' = << >>
    /\ staging_buffer' = << >>
    /\ deviceLog' = << >>
    /\ stdout' = << >>
    /\ result' = Pending
    /\ UNCHANGED <<image, k, rngLog>>
    /\ UNCHANGED pureVars

PureIdle ==
    /\ overflow_checks = FALSE
    /\ fn = None
    /\ arg = << >>
    /\ ret = Pending

Init ==
    /\ image \in Images
    /\ k \in 0..MaxK
    /\ run = 1
    /\ pc = "kmeans"
    /\ rngLog = [s \in Seeds |-> << >>]
    /\ rngPos = 0
    /\ picked_indices = << >>
    /\ drawn = None
    /\ centroids = << >>
    /\ features = FALSE
    /\ input_texture = << >>
    /\ centroid_buffer = << >>
    /\ calculated_buffer = << >>
    /\ commands = << >>
    /\ output_buffer = << >>
    /\ staging_buffer = << >>
    /\ deviceLog = << >>
    /\ stdout = << >>
    /\ result = Pending
    /\ history = << >>
    /\ PureIdle

Next ==
    \/ InitCentroidsBegin
    \/ InitCentroidsDraw
    \/ InitCentroidsReturn
    \/ RequestAdapter
    \/ RequestDevice
    \/ CreateResources
    \/ Encode
    \/ Submit
    \/ Readback
    \/ RunAgain

Spec == Init /\ [][Next]_vars

---------------------------------------------------------------------------
(* Properties of the engine (checked under Spec) *)

TotalPx == image.dimensions[1] * image.dimensions[2]

\* init_centroids has returned in this run
CentroidsReturned == pc \notin {"kmeans", "init_centroids"}

\* the run has created its device buffers / has submitted its commands
Allocated == Contains(deviceLog, "create_buffer_init")
Submitted == Contains(deviceLog, "submit")

\* the RGBA8 colors of an image's pixels
PixelsOf(img) == [p \in 1..(Len(img.rgba) \div 4) |-> SubSeq(img.rgba, 4 * p - 3, 4 * p)]

\* C1: for 1 <= K <= width*height, init_centroids returns the count K followed by
\* exactly K centroids; the picked pixel indices are pairwise distinct and lie in
\* [0, width*height); centroid i is the RGBA bytes of the i-th picked pixel, each
\* divided by 255.
C1_DistinctPixelCentroids ==
    (CentroidsReturned /\ 1 <= k /\ k <= TotalPx) =>
        /\ Len(picked_indices) = k
        /\ Len(centroids) = 1 + 4 * k
        /\ centroids[1] = k
        /\ \A i \in 1..k : picked_indices[i] \in 0..(TotalPx - 1)
        /\ \A i \in 1..k, j \in 1..k : i # j => picked_indices[i] # picked_indices[j]
        /\ \A i \in 1..k, c \in 1..4 :
              centroids[1 + 4 * (i - 1) + c] = << image.rgba[4 * picked_indices[i] + c], 255 >>

\* C1 witness: two centroids were picked from a 2x2 image whose pixels all differ,
\* after at least one draw was rejected as a duplicate.
C1_Witness ==
    /\ pc = "request_adapter"
    /\ k = 2
    /\ rngPos > k
    /\ image.dimensions = <<2, 2>>
    /\ Cardinality(Range(PixelsOf(image))) = 4

\* C2 (as claimed): with K = 0 or K > width*height, kmeans performs no device work
\* and ends with the InvalidK error, never with an image.
C2_InvalidKFailsBeforeDeviceWork ==
    (k = 0 \/ k > TotalPx) =>
        /\ deviceLog = << >>
        /\ result.kind # "Ok"
        /\ (pc = "done" => result = Err("InvalidK"))

\* f32 in [0, 1] -> u8 with rounding to nearest
ToU8(f) == (2 * 255 * f[1] + f[2]) \div (2 * f[2])

\* C3 (as claimed): for a valid K (1 <= K <= width*height), the returned image has
\* the input's dimensions and every pixel has the color of the centroid the final
\* assignment buffer assigns it to.
C3_OutputIsAssignedCentroidColor ==
    (result.kind = "Ok" /\ 1 <= k /\ k <= TotalPx) =>
        /\ result.image.dimensions = image.dimensions
        /\ Len(result.image.rgba) = 4 * TotalPx
        /\ \A p \in 1..TotalPx :
              LET cs == CentroidColors(centroid_buffer)
                  a == calculated_buffer[p]
              IN /\ a < Len(cs)
                 /\ PixelsOf(result.image)[p] = [c \in 1..4 |-> ToU8(cs[a + 1][c])]

\* the iteration ceiling of the controller
IterationCeiling == 30

\* the kernel dispatches of a command list, in order
Dispatches(cmds) ==
    SelectSeq(cmds, LAMBDA c : c.op \in {"dispatch_find_centroid", "dispatch_choose_centroid"})

\* C4 (as claimed): what is submitted is between 1 and 30 iterations, each one
\* Assignment dispatch followed by one Update dispatch.
C4_AssignThenUpdateEachIteration ==
    Submitted =>
        LET d == Dispatches(commands)
        IN /\ Len(d) % 2 = 0
           /\ (Len(d) \div 2) \in 1..IterationCeiling
           /\ \A i \in 1..Len(d) :
                 d[i].op = IF i % 2 = 1 THEN "dispatch_find_centroid"
                                        ELSE "dispatch_choose_centroid"

\* C7: for K >= 1, the image kmeans returns has at most K distinct colors.
C7_PaletteBound ==
    (result.kind = "Ok" /\ k >= 1) =>
        Cardinality(Range(PixelsOf(result.image))) <= k

\* C7 witness: an image is returned for K = 1 and an input of four distinct colors.
C7_Witness ==
    /\ result.kind = "Ok"
    /\ k = 1
    /\ Cardinality(Range(PixelsOf(image))) = 4
    /\ Len(result.image.rgba) = 16

\* C8: a run of kmeans on the same image and K yields the same initial centroids
\* as every earlier run and, when both return an image, the same image, whatever
\* the adapters' timestamp-query support.
C8_Deterministic ==
    \A i \in 1..Len(history) :
        /\ CentroidsReturned => centroids = history[i].centroids
        /\ (result.kind = "Ok" /\ history[i].result.kind = "Ok")
              => result.image = history[i].result.image

\* C8 witness: the second run returned an image, as the first did, with K = 2
\* centroids picked after a rejected draw, one run with and one without
\* timestamp queries.
C8_Witness ==
    /\ Len(history) = 1
    /\ history[1].result.kind = "Ok"
    /\ result.kind = "Ok"
    /\ features # history[1].features
    /\ k = 2
    /\ rngPos > k

\* C9 (amended): the assignment buffer has width*height entries; before the
\* Assignment pass every entry is K + 1; after it, for K >= 1, every entry is a
\* centroid index in [0, K).
C9_AssignmentBufferSentinelKPlus1 ==
    /\ Allocated => Len(calculated_buffer) = TotalPx
    /\ (Allocated /\ ~Submitted) =>
          \A p \in 1..Len(calculated_buffer) : calculated_buffer[p] = k + 1
    /\ (Submitted /\ k >= 1) =>
          \A p \in 1..Len(calculated_buffer) : calculated_buffer[p] \in 0..(k - 1)

\* C9 (as claimed): before the Assignment pass every entry is the sentinel K.
C9_AssignmentBufferSentinelK ==
    /\ Allocated => Len(calculated_buffer) = TotalPx
    /\ (Allocated /\ ~Submitted) =>
          \A p \in 1..Len(calculated_buffer) : calculated_buffer[p] = k
    /\ (Submitted /\ k >= 1) =>
          \A p \in 1..Len(calculated_buffer) : calculated_buffer[p] \in 0..(k - 1)

\* C9 witness: after the pass over a 4-pixel image with K = 2, both centroid
\* indices occur in the buffer.
C9_Witness ==
    /\ Submitted
    /\ k = 2
    /\ Len(calculated_buffer) = 4
    /\ Range(calculated_buffer) = {0, 1}

---------------------------------------------------------------------------
(* SpecPure: the helpers applied to inputs drawn from bounded sets *)

MaxPadWidth == 130
MaxGridDim == 40
MaxWrapMargin == 20
MaxReadbackWidth == 66
MaxReadbackHeight == 2

\* widths for padded_bytes_per_row: every small width, and widths up to the
\* largest whose byte count 32-bit signed integers can hold
PadWidths == (1..MaxPadWidth) \cup {4096, 8191, 8192, 16385, 536870000, 536870847}

\* u32 sizes for compute_work_group_count: the small ones, and the ones within
\* MaxWrapMargin of u32::MAX
GridDims ==
    { ToU32(n) : n \in 0..MaxGridDim }
    \cup { [hi |-> Limb - 1, lo |-> Limb - 1 - d] : d \in 0..MaxWrapMargin }

\* a padded buffer as the device would hand it back: padded stride * height bytes,
\* every byte a function of its position (no two rows alike)
SyntheticPadded(width, height) ==
    [i \in 1..(padded_bytes_per_row(width) * height) |-> (i * 3) % 251]

PureCalls ==
    { [fn |-> "padded_bytes_per_row", width |-> w] : w \in PadWidths }
    \cup { [fn |-> "compute_work_group_count", width |-> w, height |-> h] :
              w \in GridDims, h \in GridDims }
    \cup { [fn |-> "readback", width |-> w, height |-> h, data |-> SyntheticPadded(w, h)] :
              w \in 1..MaxReadbackWidth, h \in 1..MaxReadbackHeight }

EngineIdle ==
    /\ image = ImageNew(<<1, 1>>, Red)
    /\ k = 1
    /\ run = 1
    /\ pc = "idle"
    /\ rngLog = [s \in Seeds |-> << >>]
    /\ rngPos = 0
    /\ picked_indices = << >>
    /\ drawn = None
    /\ centroids = << >>
    /\ features = FALSE
    /\ input_texture = << >>
    /\ centroid_buffer = << >>
    /\ calculated_buffer = << >>
    /\ commands = << >>
    /\ output_buffer = << >>
    /\ staging_buffer = << >>
    /\ deviceLog = << >>
    /\ stdout = << >>
    /\ result = Pending
    /\ history = << >>

PureInit ==
    /\ EngineIdle
    /\ arg \in PureCalls
    /\ fn = arg.fn
    /\ overflow_checks \in (IF fn = "compute_work_group_count" THEN BOOLEAN ELSE {FALSE})
    /\ ret = Pending

\* padded_bytes_per_row(width)
CallPaddedBytesPerRow ==
    /\ fn = "padded_bytes_per_row"
    /\ ret = Pending
    /\ ret' = [kind |-> "Ok", value |-> padded_bytes_per_row(arg.width)]
    /\ UNCHANGED <<overflow_checks, fn, arg>>
    /\ UNCHANGED engineVars

\* compute_work_group_count((width, height), (16, 16)); an overflowing u32
\* operation panics in a build with overflow checks and wraps in one without
CallComputeWorkGroupCount ==
    /\ fn = "compute_work_group_count"
    /\ ret = Pending
    /\ LET r == compute_work_group_count(arg.width, arg.height, TileSize, TileSize)
       IN ret' = IF r.wrapped /\ overflow_checks
                    THEN [kind |-> "Panic"]
                    ELSE [kind |-> "Ok", value |-> <<r.x, r.y>>, wrapped |-> r.wrapped]
    /\ UNCHANGED <<overflow_checks, fn, arg>>
    /\ UNCHANGED engineVars

\* the readback of kmeans on a mapped buffer of padded rows
CallReadback ==
    /\ fn = "readback"
    /\ ret = Pending
    /\ LET width == arg.width
           height == arg.height
           padded == padded_bytes_per_row(width)
           unpadded_bytes_per_row == width * 4
       IN ret' = [kind |-> "Ok",
                  value |-> ImageNew(<<width, height>>,
                               unpad_rows(arg.data, padded, unpadded_bytes_per_row, height))]
    /\ UNCHANGED <<overflow_checks, fn, arg>>
    /\ UNCHANGED engineVars

PureNext ==
    \/ CallPaddedBytesPerRow
    \/ CallComputeWorkGroupCount
    \/ CallReadback

SpecPure == PureInit /\ [][PureNext]_vars

---------------------------------------------------------------------------
(* Properties of the helpers (checked under SpecPure) *)

\* ceil(n / d) * d
RoundUp(n, d) == ((n + d - 1) \div d) * d

\* C5: for every width >= 1, padded_bytes_per_row(width) = ceil(width*4/256)*256:
\* a multiple of 256, at least width*4, less than 256 above it, and width*4 itself
\* when that is a multiple of 256.
C5_PaddedIsNextMultipleOf256 ==
    (fn = "padded_bytes_per_row" /\ ret # Pending) =>
        LET bytes == arg.width * 4
            v == ret.value
        IN /\ v = RoundUp(bytes, 256)
           /\ v % 256 = 0
           /\ v >= bytes
           /\ v - bytes < 256
           /\ (bytes % 256 = 0 => v = bytes)

\* C5 witness: width 128, whose 512 bytes are already a multiple of 256, stays 512.
C5_Witness ==
    /\ fn = "padded_bytes_per_row"
    /\ arg.width = 128
    /\ ret # Pending
    /\ ret.value = 512

\* C6: the image reassembled from the padded rows has width*height*4 bytes, and
\* byte b of row r is byte r*paddedStride + b of the padded buffer, for every row
\* and every b below width*4.
C6_ReadbackStripsPadding ==
    (fn = "readback" /\ ret # Pending) =>
        LET width == arg.width
            height == arg.height
            paddedStride == RoundUp(width * 4, 256)
            out == ret.value.rgba
        IN /\ ret.value.dimensions = <<width, height>>
           /\ Len(out) = width * height * 4
           /\ \A r \in 0..(height - 1), b \in 0..(width * 4 - 1) :
                 out[r * width * 4 + b + 1] = arg.data[r * paddedStride + b + 1]

\* C6 witness: two rows of width 65 (260 bytes in a stride of 512) were reassembled.
C6_Witness ==
    /\ fn = "readback"
    /\ arg.width = 65
    /\ arg.height = 2
    /\ ret # Pending
    /\ Len(ret.value.rgba) = 520

\* ceil(a / d) for a u32 in limbs
CeilDivU32(a, d) ==
    DivU32(a, d) + (IF (((a.hi % d) * Limb + a.lo) % d) = 0 THEN 0 ELSE 1)

\* C10 (as claimed): for every u32 width and height the call returns
\* (ceil(width/16), ceil(height/16)) and no intermediate sum wraps.
C10_CeilingGridNeverWraps ==
    (fn = "compute_work_group_count" /\ ret # Pending) =>
        /\ ret.kind = "Ok"
        /\ ~ret.wrapped
        /\ ret.value = << CeilDivU32(arg.width, TileSize), CeilDivU32(arg.height, TileSize) >>

---------------------------------------------------------------------------
(* SpecSample: the sampling loop of init_centroids under a fair random source *)


\* One turn of `loop { let color_index = rng.gen_range(0..total_px); ... }` in which
\* the generator yields color_index.  A single call is followed here, so the
\* generator's history (rngLog, rngPos) is not recorded and the number of turns
\* is unbounded.
SampleDraw(color_index) ==
    /\ pc = "init_centroids"
    /\ Len(picked_indices) < k
    /\ color_index \in 0..(image.dimensions[1] * image.dimensions[2] - 1)
    /\ drawn' = color_index
    /\ picked_indices' = PickIfNew(picked_indices, color_index)
    /\ UNCHANGED <<image, k, run, pc, rngLog, rngPos, centroids, features,
                   input_texture, centroid_buffer, calculated_buffer, commands,
                   output_buffer, staging_buffer, deviceLog, stdout, result, history>>
    /\ UNCHANGED pureVars

SampleNext ==
    \/ InitCentroidsBegin
    \/ \E color_index \in 0..(MaxPixels - 1) : SampleDraw(color_index)
    \/ InitCentroidsReturn

\* The host thread keeps running, and the random source is fair: an index that
\* could be drawn in every turn from some point on is eventually drawn.
SampleFairness ==
    /\ WF_vars(InitCentroidsBegin)
    /\ WF_vars(InitCentroidsReturn)
    /\ \A color_index \in 0..(MaxPixels - 1) : WF_vars(SampleDraw(color_index))

SpecSample == Init /\ [][SampleNext]_vars /\ SampleFairness

\* a turn of the sampling loop: the step stays inside init_centroids
SampleTurn == pc = "init_centroids" /\ pc' = "init_centroids"

\* C11: for 0 <= K <= width*height and a fair random source, init_centroids
\* eventually returns with K unique picked indices; a turn of the loop that draws
\* an already picked index leaves the picked indices unchanged, and a turn that
\* draws a new one appends exactly that index.
C11_SamplingTerminates ==
    /\ (pc = "kmeans" /\ k <= TotalPx)
          ~> (/\ pc = "request_adapter"
              /\ Len(picked_indices) = k
              /\ Cardinality(Range(picked_indices)) = k)
    /\ [][SampleTurn =>
            IF Contains(picked_indices, drawn')
               THEN picked_indices' = picked_indices
               ELSE picked_indices' = Append(picked_indices, drawn')]_vars

\* C11 witness: init_centroids has returned with as many unique indices as the
\* image has pixels (K = width*height = 2), the case with the most rejections.
C11_Witness ==
    /\ pc = "request_adapter"
    /\ k = 2
    /\ TotalPx = 2
    /\ Len(picked_indices) = 2
    /\ Cardinality(Range(picked_indices)) = 2

=============================================================================
